---- MODULE Spec2Model ----
(***************************************************************************)
(* tdo: a task list kept in a markdown file (src/src/main.rs).             *)
(*                                                                         *)
(* Strings are sequences of one-character strings, so that trimming,       *)
(* prefix tests and replacen are computed as the code computes them.  The  *)
(* file is one such sequence with "\n" between (and possibly after) its    *)
(* lines.  A skim picker is an input: its SkimOutput is chosen by the user *)
(* and kept in skim_output.                                                *)
(***************************************************************************)
EXTENDS Integers, Sequences, FiniteSets, TLC

VARIABLES
    pc,          \* where the process is: main, interactive, view, sort, editor, add, select, f, exit, error
    local_is_file, \* Path::new(".todo.md").is_file()
    default_file,  \* TDO_DEFAULT_FILE: "unset", "missing" (set, not a file) or "file"
    path,        \* the PathBuf get_path returned: "local" or "default"; "none" before
    sub,         \* the subcommand named on the command line, or "none"
    cmd,         \* the command whose handler is running (or ran last), or "none"
    tasks,       \* Tasks(Vec<Task>): sequence of [id, text, status]
    file,        \* contents of the todo file
    id,          \* the id handed by Tasks::select to f
    skim_output, \* the SkimOutput of the last picker
    is_modified, \* user_add's local
    writes,      \* write_file calls made by the running handler
    rounds,      \* picker rounds completed by the running handler
    iters,       \* picker rounds completed by the process
    ncmds,       \* handlers started by the process
    tasks0,      \* the collection when the running handler started
    file0,       \* the file when the running handler started
    fileIds,     \* ids of the tasks whose lines are in the file, in file order
    seen         \* the file contents this process last read or wrote

vars == <<pc, local_is_file, default_file, path, sub, cmd, tasks, file, id,
          skim_output, is_modified, writes, rounds, iters, ncmds, tasks0, file0,
          fileIds, seen>>

(***************************************************************************)
(* Bounds                                                                  *)
(***************************************************************************)
MaxIter == 3     \* picker rounds completed in one process
MaxCmds == 2     \* handlers started from the interactive loop in one process
LongIter == 4    \* picker rounds in one process of SpecLong
LongCmds == 3    \* handlers started in one process of SpecLong

(***************************************************************************)
(* Strings                                                                 *)
(***************************************************************************)
NL == "\n"

IsWhitespace(c) == c = " "

StartsWith(s, p) == Len(s) >= Len(p) /\ SubSeq(s, 1, Len(p)) = p

\* index of the first occurrence of p in s, 0 when there is none
Find(s, p) ==
    LET hits == {i \in 1..(Len(s) - Len(p) + 1) : SubSeq(s, i, i + Len(p) - 1) = p}
    IN  IF hits = {} THEN 0 ELSE CHOOSE i \in hits : \A j \in hits : i <= j

Contains(s, p) == Find(s, p) # 0

\* str::replacen(p, "", 1)
Replacen1(s, p) ==
    LET i == Find(s, p)
    IN  IF i = 0 THEN s ELSE SubSeq(s, 1, i - 1) \o SubSeq(s, i + Len(p), Len(s))

RECURSIVE TrimStart(_)
TrimStart(s) ==
    IF s # <<>> /\ IsWhitespace(Head(s)) THEN TrimStart(Tail(s)) ELSE s

RECURSIVE TrimEnd(_)
TrimEnd(s) ==
    IF s # <<>> /\ IsWhitespace(s[Len(s)]) THEN TrimEnd(SubSeq(s, 1, Len(s) - 1)) ELSE s

Trim(s) == TrimEnd(TrimStart(s))

\* str::lines(): split at "\n"; a final empty piece is not a line
RECURSIVE Lines(_)
Lines(s) ==
    IF s = <<>> THEN <<>>
    ELSE LET i == Find(s, <<NL>>)
         IN  IF i = 0 THEN <<s>>
             ELSE <<SubSeq(s, 1, i - 1)>> \o Lines(SubSeq(s, i + 1, Len(s)))

\* [String]::join("\n")
RECURSIVE Join(_)
Join(ls) ==
    IF ls = <<>> THEN <<>>
    ELSE IF Len(ls) = 1 THEN ls[1]
    ELSE ls[1] \o <<NL>> \o Join(Tail(ls))

\* split_whitespace().next()
FirstToken(s) ==
    LET t == TrimStart(s)
        ws == {i \in 1..Len(t) : IsWhitespace(t[i])}
        e == IF ws = {} THEN Len(t) ELSE (CHOOSE i \in ws : \A j \in ws : i <= j) - 1
    IN  IF t = <<>> THEN <<>> ELSE <<SubSeq(t, 1, e)>>

Digits == <<"0", "1", "2", "3", "4", "5", "6", "7", "8", "9">>

DigitVal(c) == CHOOSE d \in 0..9 : Digits[d + 1] = c

IsDigit(c) == \E d \in 0..9 : Digits[d + 1] = c

\* usize formatted in decimal
RECURSIVE ToDec(_)
ToDec(n) == IF n < 10 THEN <<Digits[n + 1]>> ELSE ToDec(n \div 10) \o <<Digits[(n % 10) + 1]>>

\* {:>5}
PadLeft5(s) == [i \in 1..(IF Len(s) >= 5 THEN 0 ELSE 5 - Len(s)) |-> " "] \o s

\* str::parse::<usize>().ok()
RECURSIVE DecVal(_)
DecVal(s) == IF s = <<>> THEN 0 ELSE DecVal(SubSeq(s, 1, Len(s) - 1)) * 10 + DigitVal(s[Len(s)])

ParseUsize(s) ==
    IF s # <<>> /\ \A i \in 1..Len(s) : IsDigit(s[i]) THEN <<DecVal(s)>> ELSE <<>>

(***************************************************************************)
(* Status and Task                                                         *)
(***************************************************************************)
Status == {"Todo", "Done", "Other"}

\* impl PartialEq for Status
StatusEq(a, b) ==
    \/ a = "Todo" /\ b = "Todo"
    \/ a = "Done" /\ b = "Done"
    \/ a = "Other" /\ b = "Other"

\* an Ord for Status with the Done/Other arms swapped
StatusCmpOtherFirst(a, b) ==
    IF a = "Todo" THEN "Less"
    ELSE IF a = "Done" /\ b = "Other" THEN "Greater"
    ELSE IF a = "Done" /\ b = "Done" THEN "Equal"
    ELSE IF a = "Done" /\ b = "Todo" THEN "Greater"
    ELSE IF b = "Done" THEN "Less"
    ELSE "Greater"

\* impl Ord for Status: the match arms in order
StatusCmp(a, b) ==
    IF a = "Todo" THEN "Less"
    ELSE IF a = "Done" /\ b = "Other" THEN "Less"
    ELSE IF a = "Done" /\ b = "Done" THEN "Equal"
    ELSE IF a = "Done" /\ b = "Todo" THEN "Greater"
    ELSE "Greater"

\* usize::cmp
UsizeCmp(a, b) == IF a < b THEN "Less" ELSE IF a = b THEN "Equal" ELSE "Greater"

\* an Ord for Task that forgets the status
TaskCmpIdOnly(a, b) == UsizeCmp(a.id, b.id)

\* impl Ord for Task
TaskCmp(a, b) ==
    IF StatusEq(a.status, b.status) THEN UsizeCmp(a.id, b.id)
    ELSE StatusCmp(a.status, b.status)

Task(i, t, s) == [id |-> i, text |-> t, status |-> s]

TodoMark == <<"[", " ", "]">>
DoneMark == <<"[", "x", "]">>

\* Task::parse
Parse(i, line) ==
    LET text == IF StartsWith(line, <<"-">>) THEN Trim(Replacen1(line, <<"-">>)) ELSE Trim(line)
    IN  IF StartsWith(text, TodoMark) THEN Task(i, Trim(Replacen1(text, TodoMark)), "Todo")
        ELSE IF StartsWith(text, DoneMark) THEN Task(i, Trim(Replacen1(text, DoneMark)), "Done")
        ELSE Task(i, text, "Other")

\* Task::to_file
TaskToFile(t) ==
    IF t.status = "Todo" THEN <<"-", " ">> \o TodoMark \o <<" ">> \o t.text
    ELSE IF t.status = "Done" THEN <<"-", " ">> \o DoneMark \o <<" ">> \o t.text
    ELSE <<"-", " ">> \o t.text

\* impl Display for Task (the colour escapes are left out; "X" and "V" stand for the glyphs)
TaskDisplay(t) ==
    IF t.status = "Todo" THEN PadLeft5(ToDec(t.id)) \o <<" ", "|", " ", "X", " ">> \o t.text
    ELSE IF t.status = "Done" THEN PadLeft5(ToDec(t.id)) \o <<" ", "|", " ", "V", " ">> \o t.text
    ELSE PadLeft5(ToDec(t.id)) \o <<" ", "|", " ">> \o t.text

\* Task::parse_id
ParseId(line) ==
    LET tok == FirstToken(Trim(line))
    IN  IF tok = <<>> THEN <<>> ELSE ParseUsize(tok[1])

(***************************************************************************)
(* Tasks                                                                   *)
(***************************************************************************)
\* a Tasks::new that numbers the lines from 0
TasksNewFromZero(lines) == [i \in 1..Len(lines) |-> Parse(i - 1, lines[i])]

\* Tasks::new
TasksNew(lines) == [i \in 1..Len(lines) |-> Parse(i, lines[i])]

\* slice::sort with Task's Ord: stable
RECURSIVE InsertSorted(_, _)
InsertSorted(s, t) ==
    IF s = <<>> THEN <<t>>
    ELSE IF TaskCmp(s[Len(s)], t) = "Greater"
         THEN InsertSorted(SubSeq(s, 1, Len(s) - 1), t) \o <<s[Len(s)]>>
         ELSE s \o <<t>>

RECURSIVE SortFrom(_, _)
SortFrom(done, rest) ==
    IF rest = <<>> THEN done ELSE SortFrom(InsertSorted(done, Head(rest)), Tail(rest))

\* Tasks::sort
Sort(ts) == SortFrom(<<>>, ts)

\* Tasks::add
Add(ts, t) == Append(ts, t)

\* Tasks::remove (Vec::remove, index from 0)
Remove(ts, index) == SubSeq(ts, 1, index) \o SubSeq(ts, index + 2, Len(ts))

\* an index_of that finds the last task with the id
IndexOfLast(ts, i) ==
    LET hits == {k \in 1..Len(ts) : ts[k].id = i}
    IN  IF hits = {} THEN <<>> ELSE <<(CHOOSE k \in hits : \A j \in hits : k >= j) - 1>>

\* Tasks::index_of: Some(i) for the first task with the id, from 0
IndexOf(ts, i) ==
    LET hits == {k \in 1..Len(ts) : ts[k].id = i}
    IN  IF hits = {} THEN <<>> ELSE <<(CHOOSE k \in hits : \A j \in hits : k <= j) - 1>>

\* Tasks::delete_id: the collection afterwards
DeleteId(ts, i) ==
    LET index == IndexOf(ts, i)
    IN  IF index # <<>> THEN Remove(ts, index[1]) ELSE ts

\* Tasks::get_id: position (from 1) of the task the handle refers to, 0 for None
GetId(ts, i) ==
    LET index == IndexOf(ts, i)
    IN  IF index = <<>> THEN 0 ELSE index[1] + 1

\* Tasks::to_file
TasksToFile(ts) == Join([k \in 1..Len(ts) |-> TaskToFile(ts[k])])

\* impl Display for Tasks, as the lines skim reads from it
TasksDisplay(ts) == [k \in 1..Len(ts) |-> TaskDisplay(ts[k])]

(***************************************************************************)
(* Inputs: the files the process may find and what the user may type        *)
(***************************************************************************)
FileSorted == <<"-", " ", "[", " ", "]", " ", "a", NL,
                "-", " ", "[", "x", "]", " ", "b", NL,
                "c">>
FileUnsorted == <<"-", " ", "[", "x", "]", " ", "a", NL,
                  "-", " ", "[", " ", "]", " ", "b">>
FileUnmarked == <<"c", NL, "-", " ", "[", " ", "]", " ", "a", NL>>
FileSpaced == <<"-", "[", "x", "]", " ", " ", "a", " ">>
FileBlank == <<NL, "-", " ", "[", " ", "]">>
FileEmpty == <<>>
FileNested == <<"-", " ", "[", " ", "]", " ", "-", " ", "[", "x", "]", " ", "a">>

Files == {FileSorted, FileUnsorted, FileUnmarked, FileSpaced, FileBlank, FileEmpty,
          FileNested}

\* what the process finds: is ./.todo.md a file, what is the default path, and the
\* contents of the file the path leads to (nothing when there is no such file)
Worlds ==
    {[local |-> TRUE, default |-> "unset", file |-> f] : f \in Files}
    \cup {[local |-> TRUE, default |-> d, file |-> FileSpaced] : d \in {"missing", "file"}}
    \cup {[local |-> FALSE, default |-> "file", file |-> f] : f \in {FileNested, FileSpaced}}
    \cup {[local |-> FALSE, default |-> d, file |-> <<>>] : d \in {"unset", "missing"}}

\* the commands picked in the processes of SpecLong
LongCommands == {"add", "remove", "set", "modify"}

\* the one found by the processes of SpecLong
LongWorld == [local |-> TRUE, default |-> "unset", file |-> FileSorted]

Texts == {<<"b">>, <<" ", "b">>}

Commands == <<"view", "add", "remove", "set", "modify", "editor", "sort">>

\* UserCommand.name as characters
Name(c) ==
    CASE c = "view" -> <<"v", "i", "e", "w">>
      [] c = "add" -> <<"a", "d", "d">>
      [] c = "remove" -> <<"r", "e", "m", "o", "v", "e">>
      [] c = "set" -> <<"s", "e", "t">>
      [] c = "modify" -> <<"m", "o", "d", "i", "f", "y">>
      [] c = "editor" -> <<"e", "d", "i", "t", "o", "r">>
      [] c = "sort" -> <<"s", "o", "r", "t">>

CommandNames == [k \in 1..Len(Commands) |-> Name(Commands[k])]

Yes == <<"y", "e", "s">>
No == <<"n", "o">>
AnswerList == <<No, Yes>>

DoneItem == <<"V", " ", "d", "o", "n", "e">>
TodoItem == <<"x", " ", "t", "o", "d", "o">>
OtherItem == <<"~", " ", "o", "t", "h", "e", "r">>
StatusList == <<DoneItem, TodoItem, OtherItem>>

NoOutput == [is_abort |-> FALSE, selected |-> <<>>, query |-> <<>>]

\* SkimOutput of a picker over candidate lines: aborted, nothing selected, or one line
MenuOutputs(items) ==
    {[is_abort |-> TRUE, selected |-> <<>>, query |-> <<>>]}
    \cup {[is_abort |-> FALSE, selected |-> s, query |-> <<>>] :
            s \in {<<>>} \cup {<<items[k]>> : k \in 1..Len(items)}}

\* SkimOutput of a picker without candidates: the query the user left, aborted or not
FreeTextOutputs(prefill) ==
    {[is_abort |-> a, selected |-> <<>>, query |-> q] :
        a \in BOOLEAN, q \in Texts \cup {<<>>, prefill}}

(***************************************************************************)
(* What the handlers compute from a SkimOutput                             *)
(***************************************************************************)
\* a get_path that looks at the default path first
GetPathDefaultFirst(local, default) ==
    IF default = "file" THEN "default"
    ELSE IF local THEN "local"
    ELSE "NotFound"

\* get_path: the path, or the NotFound error
GetPath(local, default) ==
    IF local THEN "local"
    ELSE IF default # "unset"
         THEN (IF default = "file" THEN "default" ELSE "NotFound")
         ELSE "NotFound"

\* read_file
ReadFile(f) == Lines(f)

\* a from_user that takes the next free position as the id
FromUserNextId(len, out) ==
    IF ~out.is_abort /\ out.query # <<>>
    THEN <<Task(len + 1, out.query, "Todo")>>
    ELSE <<>>

\* Task::from_user: Some(task) or None
FromUser(len, out) ==
    IF ~out.is_abort /\ out.query # <<>>
    THEN <<Task(len + 2, out.query, "Todo")>>
    ELSE <<>>

\* Tasks::select: the id handed to f, or None when select returns false
SelectId(out) ==
    IF ~out.is_abort /\ out.selected # <<>> THEN ParseId(out.selected[1]) ELSE <<>>

\* a delete_task that deletes unless the answer is "no"
DeleteTaskUnlessNo(ts, i, out) ==
    IF GetId(ts, i) = 0 THEN ts
    ELSE IF out.selected # <<No>>
         THEN DeleteId(ts, i)
         ELSE ts

\* Tasks::delete_task: the collection afterwards
DeleteTask(ts, i, out) ==
    IF GetId(ts, i) = 0 THEN ts
    ELSE IF ~out.is_abort /\ out.selected # <<>> /\ out.selected[1] = Yes
         THEN DeleteId(ts, i)
         ELSE ts

\* the three `if i.contains(..)` of Tasks::set_status, in order
PickedStatus(old, i) ==
    LET s1 == IF Contains(i, <<"d", "o", "n", "e">>) THEN "Done" ELSE old
        s2 == IF Contains(i, <<"t", "o", "d", "o">>) THEN "Todo" ELSE s1
    IN  IF Contains(i, <<"o", "t", "h", "e", "r">>) THEN "Other" ELSE s2

\* Tasks::set_status: the collection afterwards
SetStatus(ts, i, out) ==
    LET k == GetId(ts, i)
    IN  IF k = 0 THEN ts
        ELSE IF ~out.is_abort /\ out.selected # <<>>
             THEN [ts EXCEPT ![k].status = PickedStatus(ts[k].status, out.selected[1])]
             ELSE ts

\* Tasks::set_text: the collection afterwards
SetText(ts, i, out) ==
    LET k == GetId(ts, i)
    IN  IF k = 0 THEN ts
        ELSE IF ~out.is_abort /\ out.query # <<>>
             THEN [ts EXCEPT ![k].text = out.query]
             ELSE ts

\* the command the interactive picker's output names, or "none"
PickedCommand(out) ==
    IF ~out.is_abort /\ out.selected # <<>>
       /\ \E k \in 1..Len(Commands) : Name(Commands[k]) = out.selected[1]
    THEN Commands[CHOOSE k \in 1..Len(Commands) :
                     /\ Name(Commands[k]) = out.selected[1]
                     /\ \A j \in 1..(k - 1) : Name(Commands[j]) # out.selected[1]]
    ELSE "none"

(***************************************************************************)
(* The process                                                             *)
(***************************************************************************)
InitFrom(worlds, subs) ==
    /\ pc = "main"
    /\ \E w \in worlds :
        /\ local_is_file = w.local
        /\ default_file = w.default
        /\ file = w.file
    /\ path = "none"
    /\ sub \in subs
    /\ cmd = "none"
    /\ tasks = <<>>
    /\ id = 0
    /\ skim_output = NoOutput
    /\ is_modified = FALSE
    /\ writes = 0
    /\ rounds = 0
    /\ iters = 0
    /\ ncmds = 0
    /\ tasks0 = <<>>
    /\ file0 = file
    /\ fileIds = <<>>
    /\ seen = <<>>

Init == InitFrom(Worlds, {"none"} \cup {Commands[k] : k \in 1..Len(Commands)})

InitLong == InitFrom({LongWorld}, {"none"})

\* where a handler starts
Entry(c) == IF c \in {"remove", "set", "modify"} THEN "select" ELSE c

\* (c.func)(&mut tasks, &path, &matches) is entered with the collection ts
StartHandler(c, ts) ==
    /\ cmd' = c
    /\ pc' = Entry(c)
    /\ is_modified' = FALSE
    /\ writes' = 0
    /\ rounds' = 0
    /\ ncmds' = ncmds + 1
    /\ tasks0' = ts
    /\ file0' = file

\* a return that always goes back to the interactive loop
ReturnToLoop == pc' = "interactive"

\* a return that always ends the process
ReturnExit == pc' = "exit"

\* the handler returns: to main's return, or to the while loop of main
Return == pc' = IF sub = "none" THEN "interactive" ELSE "exit"

\* write_file(path, ts.to_file())
WriteFile(ts) ==
    /\ file' = TasksToFile(ts)
    /\ writes' = writes + 1
    /\ fileIds' = [k \in 1..Len(ts) |-> ts[k].id]
    /\ seen' = file'

\* main: get_path fails and main returns the error
MainNotFound ==
    /\ pc = "main"
    /\ GetPath(local_is_file, default_file) = "NotFound"
    /\ pc' = "error"
    /\ UNCHANGED <<local_is_file, default_file, path, sub, cmd, tasks, file, id,
                   skim_output, is_modified, writes, rounds, iters, ncmds, tasks0,
                   file0, fileIds, seen>>

\* main: get the path, read the file, build the collection, dispatch on the subcommand
Main ==
    /\ pc = "main"
    /\ GetPath(local_is_file, default_file) # "NotFound"
    /\ path' = GetPath(local_is_file, default_file)
    /\ seen' = file
    /\ tasks' = TasksNew(ReadFile(file))
    /\ fileIds' = [k \in 1..Len(tasks') |-> tasks'[k].id]
    /\ IF sub # "none"
       THEN StartHandler(sub, tasks')
       ELSE /\ pc' = "interactive"
            /\ UNCHANGED <<cmd, is_modified, writes, rounds, ncmds, tasks0, file0>>
    /\ UNCHANGED <<local_is_file, default_file, sub, file, id, skim_output, iters>>

\* Tasks::interactive: a command (one of cs) is picked and its handler is entered
InteractivePickWithin(n, cs) ==
    /\ pc = "interactive"
    /\ ncmds < n
    /\ \E out \in MenuOutputs(CommandNames) :
        /\ PickedCommand(out) \in cs
        /\ skim_output' = out
        /\ StartHandler(PickedCommand(out), tasks)
    /\ UNCHANGED <<local_is_file, default_file, path,
                   sub, tasks, file, id, iters, fileIds, seen>>

\* Tasks::interactive returns Ok(false): main returns Ok(())
InteractiveAbort ==
    /\ pc = "interactive"
    /\ \E out \in MenuOutputs(CommandNames) :
        /\ PickedCommand(out) = "none"
        /\ skim_output' = out
    /\ pc' = "exit"
    /\ UNCHANGED <<local_is_file, default_file, path,
                   sub, cmd, tasks, file, id, is_modified, writes, rounds, iters,
                   ncmds, tasks0, file0, fileIds, seen>>

\* user_view
UserView ==
    /\ pc = "view"
    /\ tasks' = Sort(tasks)
    /\ Return
    /\ UNCHANGED <<local_is_file, default_file, path,
                   sub, cmd, file, id, skim_output, is_modified, writes, rounds,
                   iters, ncmds, tasks0, file0, fileIds, seen>>

\* user_sort
UserSort ==
    /\ pc = "sort"
    /\ tasks' = Sort(tasks)
    /\ WriteFile(tasks')
    /\ Return
    /\ UNCHANGED <<local_is_file, default_file, path,
                   sub, cmd, id, skim_output, is_modified, rounds, iters, ncmds,
                   tasks0, file0>>

\* what the editor process may leave in the file when it rewrites it
EditorFiles == {FileBlank, FileUnsorted}

\* user_editor: the editor process leaves the file as it is or rewrites it
UserEditor ==
    /\ pc = "editor"
    /\ \E f \in EditorFiles \cup {file} :
        /\ file' = f
        /\ fileIds' = IF f = file THEN fileIds ELSE <<>>
    /\ Return
    /\ UNCHANGED <<local_is_file, default_file, path,
                   sub, cmd, tasks, id, skim_output, is_modified, writes, rounds,
                   iters, ncmds, tasks0, file0, seen>>

\* user_add: one turn of the while let loop that adds a task
UserAddEntryWithin(n) ==
    /\ pc = "add"
    /\ iters < n
    /\ \E out \in FreeTextOutputs(<<>>) :
        /\ FromUser(Len(tasks), out) # <<>>
        /\ skim_output' = out
        /\ tasks' = Add(tasks, FromUser(Len(tasks), out)[1])
    /\ is_modified' = TRUE
    /\ rounds' = rounds + 1
    /\ iters' = iters + 1
    /\ UNCHANGED <<local_is_file, default_file, path,
                   pc, sub, cmd, file, id, writes, ncmds, tasks0, file0, fileIds, seen>>

\* a user_add that writes the file whether or not a task was added
UserAddEndAlwaysWrites ==
    /\ pc = "add"
    /\ \E out \in FreeTextOutputs(<<>>) :
        /\ FromUser(Len(tasks), out) = <<>>
        /\ skim_output' = out
    /\ WriteFile(tasks)
    /\ Return
    /\ UNCHANGED <<local_is_file, default_file, path,
                   sub, cmd, tasks, id, is_modified, rounds, iters, ncmds, tasks0, file0>>

\* user_add: from_user gives None, the loop ends, the file is written if is_modified
UserAddEnd ==
    /\ pc = "add"
    /\ \E out \in FreeTextOutputs(<<>>) :
        /\ FromUser(Len(tasks), out) = <<>>
        /\ skim_output' = out
    /\ IF is_modified
       THEN WriteFile(tasks)
       ELSE UNCHANGED <<file, writes, fileIds, seen>>
    /\ Return
    /\ UNCHANGED <<local_is_file, default_file, path,
                   sub, cmd, tasks, id, is_modified, rounds, iters, ncmds, tasks0, file0>>

\* Tasks::select: a task line is picked and its id parsed; f is entered
SelectPickWithin(n) ==
    /\ pc = "select"
    /\ iters < n
    /\ \E out \in MenuOutputs(TasksDisplay(tasks)) :
        /\ SelectId(out) # <<>>
        /\ skim_output' = out
        /\ id' = SelectId(out)[1]
    /\ pc' = "f"
    /\ UNCHANGED <<local_is_file, default_file, path,
                   sub, cmd, tasks, file, is_modified, writes, rounds, iters, ncmds,
                   tasks0, file0, fileIds, seen>>

\* a select loop end that writes the file only when the collection has changed
SelectEndIfChanged ==
    /\ pc = "select"
    /\ \E out \in MenuOutputs(TasksDisplay(tasks)) :
        /\ SelectId(out) = <<>>
        /\ skim_output' = out
    /\ IF tasks # tasks0
       THEN WriteFile(tasks)
       ELSE UNCHANGED <<file, writes, fileIds, seen>>
    /\ Return
    /\ UNCHANGED <<local_is_file, default_file, path,
                   sub, cmd, tasks, id, is_modified, rounds, iters, ncmds, tasks0, file0>>

\* user_remove, user_set, user_modify: select returns false, the file is written
SelectEnd ==
    /\ pc = "select"
    /\ \E out \in MenuOutputs(TasksDisplay(tasks)) :
        /\ SelectId(out) = <<>>
        /\ skim_output' = out
    /\ WriteFile(tasks)
    /\ Return
    /\ UNCHANGED <<local_is_file, default_file, path,
                   sub, cmd, tasks, id, is_modified, rounds, iters, ncmds, tasks0, file0>>

\* f returns and select returns true
RoundDone ==
    /\ pc' = "select"
    /\ rounds' = rounds + 1
    /\ iters' = iters + 1
    /\ UNCHANGED <<local_is_file, default_file, path,
                   sub, cmd, file, id, is_modified, writes, ncmds, tasks0, file0, fileIds, seen>>

\* user_remove: f = Tasks::delete_task
CallDeleteTask ==
    /\ pc = "f"
    /\ cmd = "remove"
    /\ \E out \in MenuOutputs(AnswerList) :
        /\ skim_output' = out
        /\ tasks' = DeleteTask(tasks, id, out)
    /\ RoundDone

\* user_set: f = Tasks::set_status
CallSetStatus ==
    /\ pc = "f"
    /\ cmd = "set"
    /\ \E out \in MenuOutputs(StatusList) :
        /\ skim_output' = out
        /\ tasks' = SetStatus(tasks, id, out)
    /\ RoundDone

\* user_modify: f = Tasks::set_text; the query starts as the task's text
CallSetText ==
    /\ pc = "f"
    /\ cmd = "modify"
    /\ \E out \in FreeTextOutputs(tasks[GetId(tasks, id)].text) :
        /\ skim_output' = out
        /\ tasks' = SetText(tasks, id, out)
    /\ RoundDone

InteractivePick == InteractivePickWithin(MaxCmds, {Commands[k] : k \in 1..Len(Commands)})

UserAddEntry == UserAddEntryWithin(MaxIter)

SelectPick == SelectPickWithin(MaxIter)

InteractivePickLong == InteractivePickWithin(LongCmds, LongCommands)

UserAddEntryLong == UserAddEntryWithin(LongIter)

SelectPickLong == SelectPickWithin(LongIter)

Next ==
    \/ MainNotFound
    \/ Main
    \/ InteractivePick
    \/ InteractiveAbort
    \/ UserView
    \/ UserSort
    \/ UserEditor
    \/ UserAddEntry
    \/ UserAddEnd
    \/ SelectPick
    \/ SelectEnd
    \/ CallDeleteTask
    \/ CallSetStatus
    \/ CallSetText

Spec == Init /\ [][Next]_vars

\* one interactive process on one file in which only add, remove, set and modify
\* are picked, followed further than in Spec
NextLong ==
    \/ Main
    \/ InteractivePickLong
    \/ InteractiveAbort
    \/ UserAddEntryLong
    \/ UserAddEnd
    \/ SelectPickLong
    \/ SelectEnd
    \/ CallDeleteTask
    \/ CallSetStatus
    \/ CallSetText

SpecLong == InitLong /\ [][NextLong]_vars

(***************************************************************************)
(* Vocabulary of the properties                                            *)
(***************************************************************************)
\* a handler has run and returned
Returned == pc \in {"interactive", "exit"} /\ cmd # "none"

\* the order table Todo < Done < Other
Rank(s) == CASE s = "Todo" -> 1 [] s = "Done" -> 2 [] s = "Other" -> 3

InOrder(a, b) ==
    \/ Rank(a.status) < Rank(b.status)
    \/ a.status = b.status /\ a.id <= b.id

Count(s, t) == Cardinality({k \in 1..Len(s) : s[k] = t})

SameTasks(s, r) ==
    /\ Len(s) = Len(r)
    /\ \A k \in 1..Len(s) : Count(s, s[k]) = Count(r, s[k])

Ids(ts) == {ts[k].id : k \in 1..Len(ts)}

\* ids a task can have within the bounds, and one below and some above them
IdRange == 0..(MaxIter + 6)

\* positions of the line breaks of f, and the number of lines they make
Breaks(f) == {p \in 1..Len(f) : f[p] = NL}

LineCount(f) ==
    Cardinality(Breaks(f)) + (IF f = <<>> \/ f[Len(f)] = NL THEN 0 ELSE 1)

\* the k-th line of f: what lies between the (k-1)-th and the k-th line break
LineAt(f, k) ==
    LET before == {p \in Breaks(f) : Cardinality({q \in Breaks(f) : q <= p}) = k - 1}
        after == {p \in Breaks(f) : Cardinality({q \in Breaks(f) : q <= p}) = k}
        from == IF before = {} THEN 1 ELSE (CHOOSE p \in before : TRUE) + 1
        to == IF after = {} THEN Len(f) ELSE (CHOOSE p \in after : TRUE) - 1
    IN  SubSeq(f, from, to)

\* nothing has happened to the collection since main built it
Fresh ==
    /\ iters = 0
    /\ \/ ncmds = 0 /\ pc \in {"interactive", "exit"}
       \/ ncmds = 1 /\ pc = Entry(cmd)

\* the tasks that are in both old and new stand in new in the order they had in old
OrderKept(old, new) ==
    \A i, j \in 1..Len(new) :
        (i < j /\ new[i] # new[j]) =>
            ~ \E p, q \in 1..Len(old) : p < q /\ old[p] = new[j] /\ old[q] = new[i]

(***************************************************************************)
(* C1: no two tasks of the collection have the same id, in every state of  *)
(* one process.                                                            *)
(***************************************************************************)
C1_UniqueIds ==
    \A i, j \in 1..Len(tasks) : i # j => tasks[i].id # tasks[j].id

(***************************************************************************)
(* C2: when add, remove, set or modify returns and its first picker was    *)
(* aborted (no round completed), the collection and the file are what they *)
(* were when the command started.                                          *)
(***************************************************************************)
C2_AbortLeavesUntouched ==
    (Returned /\ cmd \in {"add", "remove", "set", "modify"}
              /\ rounds = 0 /\ skim_output.is_abort)
        => tasks = tasks0 /\ file = file0

(***************************************************************************)
(* C3: view writes nothing, and a write by any command other than sort     *)
(* keeps the tasks of the file in the order they had in the file.          *)
(***************************************************************************)
C3_ViewSortNotPersisted ==
    [][/\ pc = "view" => file' = file /\ writes' = writes
       /\ (writes' = writes + 1 /\ cmd' # "sort") => OrderKept(fileIds, fileIds')]_vars

(***************************************************************************)
(* C4: sort() of any reachable collection holds the same tasks and every   *)
(* adjacent pair is in order: status by Todo < Done < Other, then id; and  *)
(* so is the collection when view or sort has returned.                    *)
(***************************************************************************)
C4_SortPostcondition ==
    /\ LET s == Sort(tasks)
       IN  /\ SameTasks(s, tasks)
           /\ \A k \in 1..(Len(s) - 1) : InOrder(s[k], s[k + 1])
    /\ (Returned /\ cmd \in {"view", "sort"}) =>
           /\ SameTasks(tasks, tasks0)
           /\ \A k \in 1..(Len(tasks) - 1) : InOrder(tasks[k], tasks[k + 1])

\* sort has run on a collection with an added task and has reordered it
C4_Witness ==
    /\ Returned
    /\ cmd = "sort"
    /\ tasks # tasks0
    /\ \E k \in 1..Len(tasks) : tasks[k].id > Len(tasks)

(***************************************************************************)
(* C5: for every Todo or Done task of the collection, parsing its          *)
(* serialized line and serializing the result gives the same line.         *)
(***************************************************************************)
C5_RoundTrip ==
    \A k \in 1..Len(tasks) :
        tasks[k].status \in {"Todo", "Done"} =>
            TaskToFile(Parse(tasks[k].id, TaskToFile(tasks[k]))) = TaskToFile(tasks[k])

(***************************************************************************)
(* C6: a freshly loaded collection has one task per line of the file, in   *)
(* file order; the task of line k has id k and is the parse of that line.  *)
(***************************************************************************)
C6_FreshLoadNumbering ==
    Fresh =>
        /\ Len(tasks) = LineCount(file)
        /\ Ids(tasks) = 1..LineCount(file)
        /\ \A k \in 1..Len(tasks) :
            /\ tasks[k].id = k
            /\ tasks[k].text = Parse(k, LineAt(file, k)).text
            /\ tasks[k].status = Parse(k, LineAt(file, k)).status

\* a file with a blank line and a marked line has been loaded
C6_Witness ==
    /\ Fresh
    /\ Len(tasks) = 2
    /\ tasks[1] = Task(1, <<>>, "Other")
    /\ tasks[2].status = "Todo"

(***************************************************************************)
(* C7: in add, an entry that is neither aborted nor empty appends one Todo *)
(* task with the entered text and id = (length before) + 2 and the loop    *)
(* goes on; any other entry appends nothing and ends the loop.             *)
(***************************************************************************)
C7_AddNumbering ==
    [][pc = "add" /\ vars' # vars =>
        IF ~skim_output'.is_abort /\ skim_output'.query # <<>>
        THEN /\ tasks' = tasks \o <<[id |-> Len(tasks) + 2,
                                    text |-> skim_output'.query,
                                    status |-> "Todo"]>>
             /\ pc' = "add"
        ELSE /\ tasks' = tasks
             /\ pc' # "add"]_vars

\* two tasks were added to a 3-task collection: ids 5 and 6
C7_Witness ==
    /\ cmd = "add"
    /\ Len(tasks0) = 3
    /\ Len(tasks) = 5
    /\ tasks[4].id = 5 /\ tasks[4].status = "Todo"
    /\ tasks[5].id = 6 /\ tasks[5].status = "Todo"

(***************************************************************************)
(* C8: add writes the file iff a task was added: not while the loop runs,  *)
(* not at all when nothing was added, otherwise once, after the loop, with *)
(* the serialization of the whole collection.                              *)
(***************************************************************************)
C8_AddWritesIffAdded ==
    /\ pc = "add" => writes = 0 /\ file = file0
    /\ (Returned /\ cmd = "add") =>
           /\ writes = (IF Len(tasks) > Len(tasks0) THEN 1 ELSE 0)
           /\ writes = 0 => file = file0 /\ tasks = tasks0
           /\ writes = 1 => file = TasksToFile(tasks)

\* add has returned after two tasks were added and one write
C8_Witness ==
    /\ Returned
    /\ cmd = "add"
    /\ Len(tasks) = Len(tasks0) + 2
    /\ writes = 1
    /\ file # file0

(***************************************************************************)
(* C9: delete(id) removes the first task in order with that id and keeps   *)
(* every other task and their order; with no such task it changes nothing. *)
(***************************************************************************)
C9_DeleteId ==
    \A i \in IdRange :
        LET r == DeleteId(tasks, i)
            hits == {k \in 1..Len(tasks) : tasks[k].id = i}
        IN  IF hits = {}
            THEN r = tasks
            ELSE LET first == CHOOSE k \in hits : \A j \in hits : k <= j
                 IN  /\ Len(r) = Len(tasks) - 1
                     /\ \A k \in 1..Len(r) : r[k] = tasks[IF k < first THEN k ELSE k + 1]

\* remove has deleted a task from a collection that still holds others
C9_Witness ==
    /\ cmd = "remove"
    /\ skim_output.selected = <<Yes>>
    /\ Len(tasks) = Len(tasks0) - 1
    /\ Len(tasks) >= 2
    /\ id \notin Ids(tasks)
    /\ id \in Ids(tasks0)

(***************************************************************************)
(* C10: for the statuses a and b of any two tasks, comparing a with b      *)
(* gives Equal iff a = b, Less iff a is before b in Todo, Done, Other,     *)
(* Greater otherwise, and comparing b with a gives the reverse.            *)
(***************************************************************************)
C10_StatusTotalOrder ==
    \A i, j \in 1..Len(tasks) :
        LET a == tasks[i].status
            b == tasks[j].status
        IN  /\ StatusCmp(a, b) = (IF Rank(a) = Rank(b) THEN "Equal"
                                  ELSE IF Rank(a) < Rank(b) THEN "Less" ELSE "Greater")
            /\ StatusCmp(b, a) = (CASE StatusCmp(a, b) = "Less" -> "Greater"
                                    [] StatusCmp(a, b) = "Greater" -> "Less"
                                    [] StatusCmp(a, b) = "Equal" -> "Equal")

(***************************************************************************)
(* C11: no task's text contains the marker "- [ ]" or "- [x]".             *)
(***************************************************************************)
C11_MarkerFreeText ==
    \A k \in 1..Len(tasks) :
        /\ ~Contains(tasks[k].text, <<"-", " ">> \o TodoMark)
        /\ ~Contains(tasks[k].text, <<"-", " ">> \o DoneMark)

(***************************************************************************)
(* C12: a handler writes the file at most once: remove, set and modify     *)
(* not while their picker loop runs and exactly once when it has ended,    *)
(* changed or not; sort exactly once; view and editor never.               *)
(***************************************************************************)
C12_WritesPerCommand ==
    /\ writes \in {0, 1}
    /\ pc \in {"select", "f", "view", "sort", "editor"} => writes = 0 /\ file = file0
    /\ (Returned /\ cmd \in {"remove", "set", "modify", "sort"}) =>
           writes = 1 /\ file = TasksToFile(tasks)
    /\ (Returned /\ cmd \in {"view", "editor"}) => writes = 0

\* set has returned after a round that changed nothing, and has written
C12_Witness ==
    /\ Returned
    /\ cmd = "set"
    /\ rounds = 1
    /\ tasks = tasks0
    /\ writes = 1

(***************************************************************************)
(* C13: with a subcommand named, the command picker is never shown, no     *)
(* other handler than the named one is entered, it is entered once, and    *)
(* the process exits when it returns.                                      *)
(***************************************************************************)
C13_SubcommandRunsOnce ==
    sub # "none" =>
        /\ pc # "interactive"
        /\ PickedCommand(skim_output) = "none"
        /\ pc \in {"main", "error"} => ncmds = 0 /\ cmd = "none"
        /\ pc \notin {"main", "error"} =>
               /\ ncmds = 1
               /\ cmd = sub
               /\ pc \in {Entry(sub), "f", "exit"}

\* remove was named, has run a round and written, and the process has exited
C13_Witness ==
    /\ sub = "remove"
    /\ pc = "exit"
    /\ cmd = "remove"
    /\ rounds >= 1
    /\ writes = 1

(***************************************************************************)
(* C14: with no subcommand named, a pick in the command picker enters that *)
(* command's handler on the live collection; a handler never ends the      *)
(* process, it returns to the command picker; aborting the command picker  *)
(* ends the process, which then does nothing more.                         *)
(***************************************************************************)
C14_InteractiveLoop ==
    [][sub = "none" =>
        /\ (pc = "interactive" /\ vars' # vars) =>
               /\ tasks' = tasks
               /\ file' = file
               /\ IF PickedCommand(skim_output') # "none"
                  THEN /\ cmd' = PickedCommand(skim_output')
                       /\ pc' = Entry(cmd')
                  ELSE pc' = "exit"
        /\ (pc \in {"view", "sort", "editor", "add", "select", "f"} /\ vars' # vars) =>
               pc' \in {"interactive", "add", "select", "f"}
        /\ (pc \in {"view", "sort", "editor"} /\ vars' # vars) => pc' = "interactive"
        /\ pc = "exit" => vars' = vars]_vars

\* a second handler has ended on an aborted picker and the command picker is shown again
C14_Witness ==
    /\ sub = "none"
    /\ pc = "interactive"
    /\ ncmds = 2
    /\ cmd = "remove"
    /\ skim_output.is_abort

(***************************************************************************)
(* C15: sort() leaves a collection that is in sorted order as it is, so    *)
(* sorting twice gives what sorting once gives.                            *)
(***************************************************************************)
C15_SortIdempotent ==
    LET sorted(ts) == \A k \in 1..(Len(ts) - 1) : InOrder(ts[k], ts[k + 1])
    IN  /\ Sort(Sort(tasks)) = Sort(tasks)
        /\ sorted(tasks) => Sort(tasks) = tasks
        /\ (Returned /\ cmd \in {"view", "sort"} /\ sorted(tasks0)) => tasks = tasks0

\* sort has run on a collection of three tasks that an earlier handler left sorted
C15_Witness ==
    /\ Returned
    /\ cmd = "sort"
    /\ ncmds = 2
    /\ Len(tasks) >= 3
    /\ tasks = tasks0

(***************************************************************************)
(* C16: ./.todo.md is used when it is a file, whatever the default; else   *)
(* the default when it is set and a file; else main fails with NotFound    *)
(* and nothing is read or written and no handler is entered.               *)
(***************************************************************************)
C16_PathResolution ==
    pc # "main" =>
        /\ local_is_file => path = "local" /\ pc # "error"
        /\ (~local_is_file /\ default_file = "file") => path = "default" /\ pc # "error"
        /\ (~local_is_file /\ default_file # "file") =>
               /\ pc = "error"
               /\ path = "none"
               /\ tasks = <<>> /\ seen = <<>>
               /\ file = file0 /\ writes = 0
               /\ ncmds = 0 /\ cmd = "none"

\* both files exist and the local one was loaded
C16_Witness ==
    /\ local_is_file
    /\ default_file = "file"
    /\ path = "local"
    /\ pc # "main"
    /\ Len(tasks) >= 1

(***************************************************************************)
(* C17: in remove the collection changes only in the yes/no step and only  *)
(* when its output is the selected line "yes": then one task leaves;       *)
(* otherwise nothing changes; either way the task picker is shown again.   *)
(***************************************************************************)
C17_RemoveConfirmation ==
    [][(cmd = "remove" /\ pc \in {"select", "f"} /\ vars' # vars) =>
        /\ pc = "select" => tasks' = tasks
        /\ pc = "f" =>
               /\ pc' = "select"
               /\ IF ~skim_output'.is_abort /\ skim_output'.selected = <<Yes>>
                  THEN Len(tasks') = Len(tasks) - 1
                  ELSE tasks' = tasks]_vars

\* a task was removed after "yes" and the next one was kept after "no"
C17_Witness ==
    /\ cmd = "remove"
    /\ pc = "select"
    /\ rounds = 2
    /\ Len(tasks) = Len(tasks0) - 1
    /\ skim_output.selected = <<No>>

(***************************************************************************)
(* C18: the step of remove, set or modify that follows a pick changes no   *)
(* task but one whose rendered line is the picked line.                    *)
(***************************************************************************)
C18_SelectionTargetsPicked ==
    [][(pc = "f" /\ tasks' # tasks) =>
        LET line == skim_output.selected[1]
        IN  IF cmd = "remove"
            THEN \E k \in 1..Len(tasks) :
                    /\ TaskDisplay(tasks[k]) = line
                    /\ tasks' = SubSeq(tasks, 1, k - 1) \o SubSeq(tasks, k + 1, Len(tasks))
            ELSE /\ Len(tasks') = Len(tasks)
                 /\ \A k \in 1..Len(tasks) :
                        tasks'[k] # tasks[k] => TaskDisplay(tasks[k]) = line]_vars

(***************************************************************************)
(* C19: this process overwrites the file only when the file holds what the *)
(* process last read or wrote: never what the editor has left there since. *)
(***************************************************************************)
C19_EditorChangesSurvive ==
    [][writes' = writes + 1 => file = seen]_vars

(***************************************************************************)
(* C20: parsing the serialization of the collection gives as many tasks,   *)
(* each with the status and the text of the task at its position.          *)
(***************************************************************************)
C20_SaveReload ==
    LET r == TasksNew(ReadFile(TasksToFile(tasks)))
    IN  /\ Len(r) = Len(tasks)
        /\ \A k \in 1..Len(tasks) :
               /\ r[k].status = tasks[k].status
               /\ r[k].text = tasks[k].text

====
